---- MODULE Spec2Model ----
(***************************************************************************)
(* A model of lib/graylogapi.py: the GraylogApi client, its three request  *)
(* primitives (get_request, put_request, del_request), the placeholder     *)
(* post_request and the five derived endpoint operations.                  *)
(*                                                                         *)
(* Text (URLs, operation paths, user names) is a sequence of one-character *)
(* strings, so that URL joining and path formatting are computed character *)
(* by character.  Python values are tagged records.                        *)
(***************************************************************************)
EXTENDS Integers, Sequences, FiniteSets, TLC

\* Bounds of the model: the longest operation path enumerated for the
\* request primitives, and the number of calls made on one client.
MaxOpLen == 2
MaxCalls == 2

----------------------------------------------------------------------------
\* Text helpers.

AsciiLetters ==
    {"a","b","c","d","e","f","g","h","i","j","k","l","m",
     "n","o","p","q","r","s","t","u","v","w","x","y","z"}

Digits == {"0","1","2","3","4","5","6","7","8","9"}

\* urllib.parse.scheme_chars, restricted to lower case.
scheme_chars == AsciiLetters \cup Digits \cup {"+", "-", "."}

\* str.find(c): the first position of c in s (from 1), 0 when absent.
Find(s, c) ==
    IF \E i \in 1..Len(s) : s[i] = c
    THEN CHOOSE i \in 1..Len(s) : s[i] = c /\ \A j \in 1..(i-1) : s[j] # c
    ELSE 0

\* s[n:] of Python, n counted from 0.
From(s, n) == SubSeq(s, n + 1, Len(s))

\* str.split('/')
RECURSIVE Split(_)
Split(s) ==
    LET i == Find(s, "/")
    IN  IF i = 0 THEN <<s>>
        ELSE <<SubSeq(s, 1, i - 1)>> \o Split(From(s, i))

\* '/'.join(segs)
RECURSIVE Join(_)
Join(segs) ==
    IF segs = <<>> THEN <<>>
    ELSE IF Len(segs) = 1 THEN segs[1]
    ELSE segs[1] \o <<"/">> \o Join(Tail(segs))

S_http == <<"h","t","t","p">>
S_https == <<"h","t","t","p","s">>
S_ftp == <<"f","t","p">>
S_file == <<"f","i","l","e">>

\* The schemes of urllib.parse.uses_relative and uses_netloc that the
\* model's URLs can carry ('' is the absent scheme).
uses_relative == {<<>>, S_http, S_https, S_ftp, S_file}
uses_netloc == {<<>>, S_http, S_https, S_ftp, S_file}

\* urllib.parse.urlsplit(u, scheme) for text without '?', '#', ';',
\* brackets, blanks and upper-case letters.  Each step hands what it has
\* computed to the next one as an argument.

\* url[:2] == '//'
TwoSlashes(s) == Len(s) >= 2 /\ s[1] = "/" /\ s[2] = "/"

\* i is url.find(':'), counted from 1: a scheme precedes it.
HasScheme(u, i) ==
    /\ i > 1
    /\ u[1] \in AsciiLetters
    /\ \A j \in 1..(i-1) : u[j] \in scheme_chars

\* _splitnetloc(url, 2): `after` is url[2:], d the position of its first '/'.
splitnetloc(scheme, after, d) ==
    [scheme |-> scheme,
     netloc |-> IF d = 0 THEN after ELSE SubSeq(after, 1, d - 1),
     path   |-> IF d = 0 THEN <<>> ELSE From(after, d - 1)]

\* urlsplit once the scheme is cut off.
urlsplit_rest(scheme, rest) ==
    IF TwoSlashes(rest)
    THEN splitnetloc(scheme, From(rest, 2), Find(From(rest, 2), "/"))
    ELSE [scheme |-> scheme, netloc |-> <<>>, path |-> rest]

urlsplit_at(u, defscheme, i) ==
    IF HasScheme(u, i)
    THEN urlsplit_rest(SubSeq(u, 1, i - 1), From(u, i))
    ELSE urlsplit_rest(defscheme, u)

urlsplit(u, defscheme) == urlsplit_at(u, defscheme, Find(u, ":"))

\* urllib.parse.urlunsplit((scheme, netloc, path, '', ''))
urlunsplit(scheme, netloc, path) ==
    LET slashes == Len(path) >= 2 /\ path[1] = "/" /\ path[2] = "/"
        rooted == IF path # <<>> /\ path[1] # "/" THEN <<"/">> \o path ELSE path
        u1 == IF netloc # <<>>
                 \/ (scheme # <<>> /\ scheme \in uses_netloc /\ ~slashes)
              THEN <<"/", "/">> \o netloc \o rooted
              ELSE path
    IN  IF scheme # <<>> THEN scheme \o <<":">> \o u1 ELSE u1

\* segments[1:-1] = filter(None, segments[1:-1])
FilterMiddle(segs) ==
    IF Len(segs) <= 2 THEN segs
    ELSE <<segs[1]>>
         \o SelectSeq(SubSeq(segs, 2, Len(segs) - 1), LAMBDA x : x # <<>>)
         \o <<segs[Len(segs)]>>

\* The loop of urljoin that resolves '.' and '..' segments.
RECURSIVE ResolveDots(_, _)
ResolveDots(segs, acc) ==
    IF segs = <<>> THEN acc
    ELSE LET seg == Head(segs)
         IN  ResolveDots(Tail(segs),
                 IF seg = <<".", ".">>
                 THEN (IF acc = <<>> THEN acc ELSE SubSeq(acc, 1, Len(acc) - 1))
                 ELSE IF seg = <<".">> THEN acc
                 ELSE Append(acc, seg))

\* base_parts of urljoin: bpath.split('/') without a last item that is no
\* directory.
base_parts(parts) ==
    IF parts[Len(parts)] # <<>> THEN SubSeq(parts, 1, Len(parts) - 1)
    ELSE parts

\* segments of urljoin.
segments(bpath, path) ==
    IF path[1] = "/" THEN Split(path)
    ELSE FilterMiddle(base_parts(Split(bpath)) \o Split(path))

\* '/'.join(resolved_path) or '/'
path_or_root(joined) == IF joined = <<>> THEN <<"/">> ELSE joined

\* resolved_path of urljoin, joined.
resolved_path(segs) ==
    path_or_root(Join(
        IF segs[Len(segs)] \in {<<".">>, <<".", ".">>}
        THEN Append(ResolveDots(segs, <<>>), <<>>)
        ELSE ResolveDots(segs, <<>>)))

\* urljoin once base (b) and url (u) are parsed.
urljoin_parsed(url, b, u) ==
    IF u.scheme # b.scheme \/ u.scheme \notin uses_relative THEN url
    ELSE IF u.scheme \in uses_netloc /\ u.netloc # <<>>
    THEN urlunsplit(u.scheme, u.netloc, u.path)
    ELSE IF u.path = <<>>
    THEN urlunsplit(u.scheme,
                    IF u.scheme \in uses_netloc THEN b.netloc ELSE u.netloc,
                    b.path)
    ELSE urlunsplit(u.scheme,
                    IF u.scheme \in uses_netloc THEN b.netloc ELSE u.netloc,
                    resolved_path(segments(b.path, u.path)))

urljoin_base(url, b) == urljoin_parsed(url, b, urlsplit(url, b.scheme))

\* Variant: plain concatenation.
urljoin_concat(base, url) == base \o url

\* urllib.parse.urljoin(base, url)
urljoin(base, url) ==
    IF base = <<>> THEN url
    ELSE IF url = <<>> THEN base
    ELSE urljoin_base(url, urlsplit(base, <<>>))

----------------------------------------------------------------------------
\* Python values, and the two ways a call ends.

None_ == [t |-> "NoneType"]
PyBool(v) == [t |-> "bool", b |-> v]
PyInt(n) == [t |-> "int", i |-> n]
PyStr(s) == [t |-> "str", s |-> s]
PyList(l) == [t |-> "list", l |-> l]
PyDict(f) == [t |-> "dict", d |-> f]

Return(v) == [kind |-> "return", val |-> v, exc |-> ""]
Raise(e) == [kind |-> "raise", val |-> None_, exc |-> e]

----------------------------------------------------------------------------
\* The server side: what one HTTP exchange can give back.

Statuses == {100, 200, 204, 302, 400, 401, 403, 500, 599}

B_streams == "{\"streams\": [\"s1\"]}"
B_users == "{\"users\": []}"
B_null == "null"
B_html == "<html>"
Bodies == {B_streams, B_users, B_null, B_html}

HttpResponse(s, c) == [kind |-> "http", status_code |-> s, content |-> c]
\* requests raises (connection refused, timeout, ...) instead of answering.
TransportError == [kind |-> "error", status_code |-> 0, content |-> ""]
\* No exchange took place.
NoExchange == [kind |-> "none", status_code |-> 0, content |-> ""]

Responses ==
    {HttpResponse(s, c) : s \in Statuses, c \in Bodies} \cup {TransportError}

\* A narrow sample of replies, for the runs that vary the operation path.
FewResponses == {HttpResponse(200, B_users), HttpResponse(400, B_html)}

\* json.loads(content.decode('utf-8')) on the bodies of the model.
json_loads(c) ==
    CASE c = B_streams -> Return(PyDict([streams |-> PyList(<<PyStr("s1")>>)]))
      [] c = B_users   -> Return(PyDict([users |-> PyList(<<>>)]))
      [] c = B_null    -> Return(None_)
      [] OTHER         -> Raise("JSONDecodeError")

\* value[key] of Python for a str key.
getitem(v, key) ==
    IF v.t = "dict"
    THEN (IF key \in DOMAIN v.d THEN Return(v.d[key]) ELSE Raise("KeyError"))
    ELSE Raise("TypeError")

----------------------------------------------------------------------------
\* Inputs.

T_streams == <<"s","t","r","e","a","m","s">>
T_users == <<"u","s","e","r","s">>
T_users_slash == <<"u","s","e","r","s","/">>
T_users_id_slash == <<"u","s","e","r","s","/","i","d","/">>
T_slash_permissions == <<"/","p","e","r","m","i","s","s","i","o","n","s">>

DefaultUrl ==
    <<"h","t","t","p",":","/","/","1","2","7",".","0",".","0",".","1",
      ":","9","0","0","0","/","a","p","i","/">>
UrlNoSlash ==
    <<"h","t","t","p",":","/","/","1","2","7",".","0",".","0",".","1",
      ":","9","0","0","0","/","a","p","i">>
BaseUrls == {DefaultUrl, UrlNoSlash}

Tokens == {"abc123", "s3cr3t"}

OpAlphabet == {"a", "/", ".", ":"}
\* Every operation path of at most MaxOpLen characters, and the paths the
\* derived operations build.
AllOperations ==
    UNION {[1..k -> OpAlphabet] : k \in 0..MaxOpLen}
    \cup {T_streams, T_users_id_slash \o <<"4", "2">>,
          T_users_slash \o <<"a">> \o T_slash_permissions}
\* The operation paths tried together with every reply.
Operations == {<<"a">>, <<"/", "a">>}

Usernames == {<<"a">>, <<"4", "2">>}
PermissionLists == {PyList(<<>>), PyList(<<PyStr("read")>>)}
PutData == {None_, PyDict([permissions |-> PyList(<<PyStr("read")>>)])}

----------------------------------------------------------------------------
\* The client.

VARIABLES
    url,                 \* self.url
    api_token,           \* self.api_token
    api_token_password,  \* self.api_token_password
    headers,             \* self.headers
    ctor,                \* the arguments __init__ was called with
    call,                \* the method called last
    args,                \* its arguments
    issued,              \* the HTTP requests that call handed to requests
    resp,                \* what the server answered to it
    ret,                 \* how the call ended: a returned value or a fault
    ncalls,              \* calls that have ended so far
    pending              \* per calling thread, the call it is inside of

vars == <<url, api_token, api_token_password, headers, ctor,
          call, args, issued, resp, ret, ncalls, pending>>
config == <<url, api_token, api_token_password, headers, ctor>>

\* The threads of the program that hold the one client object.
Threads == {"T1", "T2"}
\* The thread is in none of the client's methods.
Idle == [call |-> "", args |-> <<>>]

FixedHeaders ==
    ("Content-Type" :> "application/json") @@ ("X-Requested-By" :> "cli")

NoBody == [t |-> "absent"]

\* Variant: the pair the wrong way round.
BasicAuth_swapped == <<api_token_password, api_token>>

\* auth=(self.api_token, self.api_token_password)
BasicAuth == <<api_token, api_token_password>>

\* requests.get / requests.put / requests.delete as called by the client.
Request(method, request_url, body) ==
    [method |-> method, url |-> request_url, headers |-> headers,
     auth |-> BasicAuth, json |-> body]

\* A method's effect: the requests it issues and how it ends.
Effect(reqs, result) == [issued |-> reqs, result |-> result]

\* Variant: any 2xx answer is decoded.
get_request_any2xx(operation, r) ==
    Effect(<<Request("GET", urljoin(url, operation), NoBody)>>,
           IF r.kind # "http" THEN Raise("ConnectionError")
           ELSE IF r.status_code \in 200..299 THEN json_loads(r.content)
           ELSE Return(None_))

get_request(operation, r) ==
    Effect(<<Request("GET", urljoin(url, operation), NoBody)>>,
           IF r.kind # "http" THEN Raise("ConnectionError")
           ELSE IF r.status_code = 200 THEN json_loads(r.content)
           ELSE Return(None_))

post_request == Effect(<<>>, Return(None_))

\* Variant: an error status is raised instead of returned.
put_request_raise_for_status(operation, data, r) ==
    Effect(<<Request("PUT", urljoin(url, operation), data)>>,
           IF r.kind # "http" THEN Raise("ConnectionError")
           ELSE IF r.status_code >= 400 THEN Raise("HTTPError")
           ELSE Return(PyInt(r.status_code)))

put_request(operation, data, r) ==
    Effect(<<Request("PUT", urljoin(url, operation), data)>>,
           IF r.kind # "http" THEN Raise("ConnectionError")
           ELSE Return(PyInt(r.status_code)))

\* Variant: the reply is bound to the name the return reads.
del_request_bound(operation, r) ==
    Effect(<<Request("DELETE", urljoin(url, operation), NoBody)>>,
           IF r.kind # "http" THEN Raise("ConnectionError")
           ELSE Return(PyInt(r.status_code)))

\* The reply is bound to `reponse`; `response` is unbound at the return,
\* which raises NameError once requests.delete has come back.
del_request(operation, r) ==
    Effect(<<Request("DELETE", urljoin(url, operation), NoBody)>>,
           IF r.kind # "http" THEN Raise("ConnectionError")
           ELSE Raise("NameError"))

\* What a derived operation makes of the primitive it calls: a fault of the
\* primitive passes through, its value is worked on.

\* self.get_request('streams')['streams']
index_streams(g) ==
    Effect(g.issued,
           IF g.result.kind = "raise" THEN g.result
           ELSE getitem(g.result.val, "streams"))

\* if status_code == 400: return False / else: return True
not_400(p) ==
    Effect(p.issued,
           IF p.result.kind = "raise" THEN p.result
           ELSE IF p.result.val = PyInt(400) THEN Return(PyBool(FALSE))
           ELSE Return(PyBool(TRUE)))

\* Variant: the absence of a result is passed on.
pass_none(g) ==
    IF g.result = Return(None_) THEN g ELSE index_streams(g)

get_streams_guarded(r) == pass_none(get_request(T_streams, r))

get_streams(r) == index_streams(get_request(T_streams, r))

delete_users_id(user_id, r) ==
    not_400(del_request(T_users_id_slash \o user_id, r))

get_users(r) == get_request(T_users, r)

get_users_username(username, r) == get_request(T_users_slash \o username, r)

\* Variant: the permission list is sent bare.
put_users_permissions_bare(username, permissions, r) ==
    not_400(put_request(T_users_slash \o username \o T_slash_permissions,
                        permissions, r))

put_users_permissions(username, permissions, r) ==
    not_400(put_request(T_users_slash \o username \o T_slash_permissions,
                        PyDict([permissions |-> permissions]), r))

----------------------------------------------------------------------------
\* The state machine: construction, then up to MaxCalls calls made by the
\* threads that hold the client.

\* __init__(api_token, url): no request is made.
Init ==
    \E t \in Tokens, u \in BaseUrls :
        /\ url = u
        /\ api_token = t
        /\ api_token_password = "token"
        /\ headers = FixedHeaders
        /\ ctor = [api_token |-> t, url |-> u]
        /\ call = "__init__"
        /\ args = [api_token |-> t, url |-> u]
        /\ issued = <<>>
        /\ resp = NoExchange
        /\ ret = Return(None_)
        /\ ncalls = 0
        /\ pending = [th \in Threads |-> Idle]

\* The end of a call: the reply r has arrived and the rest of the method has
\* run, with eff what the method handed to requests and how it ended.
Finish(name, a, r, eff) ==
    /\ ncalls' = ncalls + 1
    /\ call' = name
    /\ args' = a
    /\ resp' = r
    /\ issued' = eff.issued
    /\ ret' = eff.result
    /\ UNCHANGED config

\* A method is entered, the thread waits inside requests.get / put / delete
\* for the answer, and the method returns. The class takes no lock, so
\* nothing keeps another thread out of the client meanwhile.

\* Replies tried when the calls of two threads interleave freely.
ThreadResponses ==
    {HttpResponse(100, B_html), HttpResponse(200, B_streams),
     HttpResponse(302, B_html), HttpResponse(400, B_html),
     HttpResponse(500, B_html), TransportError}

\* Variant: the request is handed to a background sender and the method
\* returns to its caller at once.
InCall_async(t) == FALSE

\* The thread is inside a method, waiting in requests for the answer.
InCall(t) == pending[t].call # ""

InProgress == {t \in Threads : InCall(t)}

\* The thread can make a call: it is in none, and calls are left.
CanCall(t) ==
    /\ ~InCall(t)
    /\ ncalls + Cardinality(InProgress) < MaxCalls

\* The method a thread is inside of, run against the reply r.
Dispatch(c, r) ==
    CASE c.call = "get_request" -> get_request(c.args.operation, r)
      [] c.call = "put_request" -> put_request(c.args.operation, c.args.data, r)
      [] c.call = "del_request" -> del_request(c.args.operation, r)
      [] c.call = "get_streams" -> get_streams(r)
      [] c.call = "delete_users_id" -> delete_users_id(c.args.user_id, r)
      [] c.call = "get_users" -> get_users(r)
      [] c.call = "get_users_username" -> get_users_username(c.args.username, r)
      [] c.call = "put_users_permissions" ->
             put_users_permissions(c.args.username, c.args.permissions, r)

Enter(t, name, a) ==
    /\ pending' = [pending EXCEPT ![t] = [call |-> name, args |-> a]]
    /\ UNCHANGED <<config, call, args, issued, resp, ret, ncalls>>

\* A thread enters get_request, put_request or del_request.
Thread_call_primitive(t, ops, datas) ==
    /\ CanCall(t)
    /\ \/ \E operation \in ops :
             Enter(t, "get_request", [operation |-> operation])
       \/ \E operation \in ops, data \in datas :
             Enter(t, "put_request", [operation |-> operation, data |-> data])
       \/ \E operation \in ops :
             Enter(t, "del_request", [operation |-> operation])

\* A thread enters one of the methods built on them.
Thread_call_derived(t) ==
    /\ CanCall(t)
    /\ \/ Enter(t, "get_streams", <<>>)
       \/ \E user_id \in Usernames :
             Enter(t, "delete_users_id", [user_id |-> user_id])
       \/ Enter(t, "get_users", <<>>)
       \/ \E username \in Usernames :
             Enter(t, "get_users_username", [username |-> username])
       \/ \E username \in Usernames, permissions \in PermissionLists :
             Enter(t, "put_users_permissions",
                   [username |-> username, permissions |-> permissions])

\* A thread enters get_users.
Thread_call_get_users(t) ==
    /\ CanCall(t)
    /\ Enter(t, "get_users", <<>>)

\* The answer arrives and the method the thread is inside of runs to its end.
Thread_return(t, rs) ==
    /\ InCall(t)
    /\ \E r \in rs :
          Finish(pending[t].call, pending[t].args, r, Dispatch(pending[t], r))
    /\ pending' = [pending EXCEPT ![t] = Idle]

\* post_request has nothing to wait for: it is entered and left in one step.
Thread_post_request(t) ==
    /\ CanCall(t)
    /\ Finish("post_request", <<>>, NoExchange, post_request)
    /\ UNCHANGED pending

\* One thread makes every call with every reply, while the other thread
\* calls get_users on the same client.
Next ==
    \/ Thread_call_primitive("T1", Operations, PutData)
    \/ Thread_call_derived("T1")
    \/ Thread_post_request("T1")
    \/ Thread_return("T1", Responses)
    \/ Thread_call_get_users("T2")
    \/ Thread_return("T2", FewResponses)

Spec == Init /\ [][Next]_vars

\* One thread calls the request primitives over every short operation path,
\* while the other thread calls get_users on the same client.
NextJoin ==
    \/ Thread_call_primitive("T1", AllOperations, {None_})
    \/ Thread_return("T1", FewResponses)
    \/ Thread_call_get_users("T2")
    \/ Thread_return("T2", FewResponses)

SpecJoin == Init /\ [][NextJoin]_vars

\* Both threads make every call.
NextThreads ==
    \E t \in Threads :
        \/ Thread_call_primitive(t, Operations, PutData)
        \/ Thread_call_derived(t)
        \/ Thread_post_request(t)
        \/ Thread_return(t, ThreadResponses)

SpecThreads == Init /\ [][NextThreads]_vars

----------------------------------------------------------------------------
\* Properties.

GetCalls == {"get_request", "get_users", "get_users_username"}
HttpCalls == {"get_request", "put_request", "del_request", "get_streams",
              "get_users", "get_users_username", "delete_users_id",
              "put_users_permissions"}
Primitives == {"get_request", "put_request", "del_request"}

\* The server answered the last call with a status code.
Answered == resp.kind = "http"

\* C1: when the server answers get_request, get_users or
\* get_users_username, the call gives the decoded JSON body exactly when
\* the status is 200 (it ends as the decoding of the body ends), and for
\* every other status it returns None and raises nothing.
C1_GetReturnsJsonIffStatus200 ==
    (call \in GetCalls /\ Answered) =>
        /\ resp.status_code = 200 => ret = json_loads(resp.content)
        /\ resp.status_code # 200 => ret = Return(None_)
        /\ (ret.kind = "return" /\ ret.val.t # "NoneType")
               => resp.status_code = 200

C1_Witness ==
    /\ call = "get_users_username"
    /\ resp = HttpResponse(200, B_users)
    /\ ret = Return(PyDict([users |-> PyList(<<>>)]))

\* C2: delete_users_id sends a DELETE to users/id/{user_id} and returns
\* False when the server answers 400 and True for every other status.
C2_DeleteUsersIdReturnsBoolean ==
    (call = "delete_users_id" /\ Answered) =>
        /\ Len(issued) = 1
        /\ issued[1].method = "DELETE"
        /\ issued[1].url = urljoin(url, T_users_id_slash \o args.user_id)
        /\ ret = Return(PyBool(resp.status_code # 400))

\* C3: put_users_permissions sends one PUT to users/{username}/permissions
\* whose JSON body is the dict {"permissions": perms}, and returns False
\* exactly when the status is 400, True for every other status.
C3_PutUsersPermissions ==
    call = "put_users_permissions" =>
        /\ Len(issued) = 1
        /\ issued[1].method = "PUT"
        /\ issued[1].url =
               urljoin(url, T_users_slash \o args.username \o T_slash_permissions)
        /\ issued[1].json = [t |-> "dict", d |-> [permissions |-> args.permissions]]
        /\ Answered => ret = Return(PyBool(resp.status_code # 400))

C3_Witness ==
    /\ call = "put_users_permissions"
    /\ args.permissions = PyList(<<PyStr("read")>>)
    /\ resp.kind = "http" /\ resp.status_code = 500
    /\ ret = Return(PyBool(TRUE))

\* C4: get_streams returns the value under "streams" of the decoded body
\* when the server answers 200 with a JSON object that has that key; on
\* every other status it ends in a TypeError (None is indexed), never in a
\* returned value.
C4_GetStreams ==
    (call = "get_streams" /\ Answered) =>
        /\ (/\ resp.status_code = 200
            /\ json_loads(resp.content).kind = "return"
            /\ json_loads(resp.content).val.t = "dict"
            /\ "streams" \in DOMAIN json_loads(resp.content).val.d)
               => ret = Return(json_loads(resp.content).val.d["streams"])
        /\ resp.status_code # 200 => ret = Raise("TypeError")

C4_Witness ==
    /\ call = "get_streams"
    /\ resp = HttpResponse(401, B_streams)
    /\ ret = Raise("TypeError")

\* The operation path of a primitive's last call does not start with '/'.
Relative(p) == p = <<>> \/ p[1] # "/"

\* C5 as stated: for a path that does not start with '/', the URL
\* requested is the base URL followed by the path, whether or not the base
\* URL ends with '/'.
C5_UrlIsBasePlusPath ==
    (call \in Primitives /\ Relative(args.operation)) =>
        issued[1].url = url \o args.operation

\* A path of segments separated by single '/' (it may end with '/'), none
\* of them '.' or '..', and with no scheme in front.
PlainPath(p) ==
    /\ p # <<>>
    /\ ~HasScheme(p, Find(p, ":"))
    /\ \A k \in 1..Len(Split(p)) :
          /\ Split(p)[k] \notin {<<".">>, <<".", ".">>}
          /\ k < Len(Split(p)) => Split(p)[k] # <<>>

\* The base URL up to and including its last '/'.
Directory(s) ==
    SubSeq(s, 1, CHOOSE i \in 1..Len(s) :
                     s[i] = "/" /\ \A j \in (i+1)..Len(s) : s[j] # "/")

\* C5, amended: for a plain relative path the URL requested is the base URL
\* followed by the path when the base URL ends with '/'; when it does not,
\* the path replaces the last segment of the base URL.
C5_UrlIsDirectoryPlusPath ==
    (call \in Primitives /\ PlainPath(args.operation)) =>
        /\ Len(issued) = 1
        /\ issued[1].url = Directory(url) \o args.operation
        /\ url[Len(url)] = "/" => issued[1].url = url \o args.operation

C5_Witness ==
    /\ call = "put_request"
    /\ url = UrlNoSlash
    /\ args.operation = <<"a", "/">>
    /\ issued[1].url =
           <<"h","t","t","p",":","/","/","1","2","7",".","0",".","0",".","1",
             ":","9","0","0","0","/","a","/">>
    /\ issued[1].url # url \o args.operation

\* C6: del_request sends a DELETE and returns the status code of the answer,
\* unchanged.
C6_DelRequestReturnsStatus ==
    (call = "del_request" /\ Answered) =>
        /\ Len(issued) = 1
        /\ issued[1].method = "DELETE"
        /\ ret = Return(PyInt(resp.status_code))

\* C7: put_request returns the status code of the answer unchanged, for
\* every status and every body, and raises on none.
C7_PutRequestReturnsStatus ==
    (call = "put_request" /\ Answered) =>
        ret = [kind |-> "return", val |-> [t |-> "int", i |-> resp.status_code],
               exc |-> ""]

C7_Witness ==
    /\ call = "put_request"
    /\ resp = HttpResponse(599, B_html)
    /\ ret = Return(PyInt(599))

\* The last call to end handed exactly one request to the HTTP library if it
\* is a method that talks to the server, and none if it is the construction
\* or post_request.
OneRequestPerCall ==
    /\ call \in HttpCalls => Len(issued) = 1
    /\ call \in {"__init__", "post_request"} => Len(issued) = 0

\* C8 as stated: every call of a method that talks to the server issues
\* exactly one request, whatever the answer, and has ended before the next
\* call on the client starts, so that no two calls are ever in progress at
\* once; construction and post_request issue none.
C8_OneRequestPerCallNoOverlap ==
    /\ OneRequestPerCall
    /\ Cardinality({t \in Threads : pending[t].call # ""}) <= 1

\* C8, amended: every call of a method that talks to the server hands
\* exactly one request to the HTTP library, whatever the answer, and keeps
\* its own thread until it ends: a thread inside a call starts no other call
\* before that one has returned. Construction and post_request hand over no
\* request. Calls of different threads are not kept apart.
C8_OneRequestPerCallOfAThread ==
    /\ []OneRequestPerCall
    /\ [][\A t \in Threads :
            pending[t].call # "" =>
                \/ pending'[t].call = pending[t].call /\ pending'[t].args = pending[t].args
                \/ /\ pending'[t].call = ""
                   /\ call' = pending[t].call
                   /\ ncalls' = ncalls + 1]_vars

\* The second thread's get_streams has ended with a 500 and one request
\* while the first thread is still inside put_request.
C8_Witness ==
    /\ pending["T1"].call = "put_request"
    /\ pending["T2"].call = ""
    /\ call = "get_streams"
    /\ resp.kind = "http" /\ resp.status_code = 500
    /\ Len(issued) = 1

\* C9: after any calls the base URL, token, password and headers are those
\* of construction, and every request carries the construction-time token
\* as user name, "token" as password and the two fixed headers.
C9_ConfigurationNeverChanges ==
    /\ url = ctor.url
    /\ api_token = ctor.api_token
    /\ api_token_password = "token"
    /\ DOMAIN headers = {"Content-Type", "X-Requested-By"}
    /\ headers["Content-Type"] = "application/json"
    /\ headers["X-Requested-By"] = "cli"
    /\ \A k \in 1..Len(issued) :
          /\ issued[k].auth = <<ctor.api_token, "token">>
          /\ DOMAIN issued[k].headers = {"Content-Type", "X-Requested-By"}
          /\ issued[k].headers["Content-Type"] = "application/json"
          /\ issued[k].headers["X-Requested-By"] = "cli"

C9_Witness ==
    /\ ncalls = 2
    /\ call = "put_users_permissions"
    /\ resp.kind = "http" /\ resp.status_code = 403
    /\ ctor.api_token = "s3cr3t"
    /\ issued[1].auth = <<"s3cr3t", "token">>

\* C10: every call of del_request and of delete_users_id that the server
\* answers ends in a NameError, whatever the status, and the DELETE request
\* has been sent by then.
C10_DeleteAlwaysFaults ==
    call \in {"del_request", "delete_users_id"} =>
        /\ Len(issued) = 1
        /\ issued[1].method = "DELETE"
        /\ Answered => ret = Raise("NameError")

C10_Witness ==
    /\ call = "delete_users_id"
    /\ resp.kind = "http" /\ resp.status_code = 204
    /\ Len(issued) = 1 /\ issued[1].method = "DELETE"
    /\ ret = Raise("NameError")

====
